---- MODULE Spec2Model ----
(***************************************************************************)
(* Model of the asset server (src/unnamed/part_000): the Asset collection, *)
(* the PIN gate, the share-token lifecycle and the anonymous share routes. *)
(* A handler that awaits between a read of the collection and a write to   *)
(* it is two steps (Begin / Finish), so that requests interleave exactly   *)
(* where the event loop lets them.                                         *)
(***************************************************************************)
EXTENDS Naturals, Integers, Sequences, FiniteSets, Bags, TLC

VARIABLES
  assets,   \* the Asset collection: _id -> document, or NoAsset
  nextId,   \* the next _id a successful insert gets
  req,      \* the bag of handlers suspended between their read and their write
  last,     \* the response sent most recently
  issued,   \* _id -> the share tokens returned by 200 responses of POST /share
  users,    \* the User collection: _id -> document, or NoUser
  jwt,      \* the user ids for which a token was signed
  ui        \* the state of the owner's dashboard (HomePage)

vars == <<assets, nextId, req, last, issued, users, jwt, ui>>

----------------------------------------------------------------------------
(* Bounds *)

MaxAssets == 2
MaxInflight == 2
MaxViews == 1

Ids == 1..MaxAssets

----------------------------------------------------------------------------
(* Values *)

Users == {"u1", "u2"}
Anon == "anon"

\* the accounts: the users, one whose email contains 'admin', and the one of
\* the allow-list
Admins == {"a1"}
Listed == {"a2"}
Accounts == Users \cup Admins \cup Listed
NoUser == [none |-> TRUE]

\* the emails the accounts sign up with, as strings of characters
AdminEmails ==
  { <<"l","o","g","e","s","h","2","0","4","6","@","g","m","a","i","l",".","c","o","m">> }
Email(a) ==
  CASE a = "u1" -> <<"u", "1", "@", "x">>
    [] a = "u2" -> <<"A", "d", "m", "i", "n", "@", "x">>
    [] a = "a1" -> <<"x", "a", "d", "m", "i", "n", "@", "x">>
    [] a = "a2" -> CHOOSE e \in AdminEmails : TRUE

\* String.prototype.includes
Includes(s, sub) ==
  \E i \in 1..(Len(s) + 1) :
    i + Len(sub) - 1 <= Len(s) /\ SubSeq(s, i, i + Len(sub) - 1) = sub

\* JS null / undefined of a string-valued field or parameter
Null == "null"

\* the values crypto.randomBytes(16).toString('hex') can return
Tokens == {"t1", "t2"}

\* a JS value that is either absent (undefined) or a string of characters
Absent == [given |-> FALSE, s |-> <<>>]
Str(s) == [given |-> TRUE, s |-> s]
PinStrings == { <<>>, <<"1", "2">>, <<"1", "2", " ">>, <<"9">> }
JsPins == {Absent} \cup {Str(s) : s \in PinStrings}

\* JS truthiness of such a value: undefined and '' are falsy
Truthy(p) == p.given /\ p.s # <<>>

\* String.prototype.trim
RECURSIVE TrimLeft(_)
TrimLeft(s) == IF s # <<>> /\ Head(s) = " " THEN TrimLeft(Tail(s)) ELSE s
RECURSIVE TrimRight(_)
TrimRight(s) ==
  IF s # <<>> /\ s[Len(s)] = " " THEN TrimRight(SubSeq(s, 1, Len(s) - 1)) ELSE s
Trim(s) == TrimLeft(TrimRight(s))

\* bcrypt.hash / bcrypt.compare: a hash matches exactly the string it was made of
NullPin == <<>>
BcryptHash(s) == <<"$2a$10$">> \o s
BcryptCompare(s, hash) == hash = BcryptHash(s)

NoAsset == [none |-> TRUE]
NoUrl == <<>>
UrlOf(id) == <<"uploads", id>>

----------------------------------------------------------------------------
(* The collection *)

Exists(id) == id \in Ids /\ assets[id] # NoAsset
Existing == {id \in Ids : assets[id] # NoAsset}

Min(S) == CHOOSE x \in S : \A y \in S : x <= y

\* Asset.findOne({ _id, userId })
FindOwned(id, u) ==
  IF Exists(id) /\ assets[id].userId = u THEN assets[id] ELSE NoAsset

\* Asset.findOne({ _id })
FindById(id) == IF Exists(id) THEN assets[id] ELSE NoAsset

\* Asset.findOne({ shareToken: token }): the first document whose field equals
\* the value; a null (or undefined) value matches the documents storing null
FindByShareToken(token) ==
  LET m == {id \in Existing : assets[id].shareToken = token}
  IN IF m = {} THEN NoAsset ELSE assets[Min(m)]

\* the unique index on shareToken: a document that has the field (upload sets
\* it on every document, to a token or to null) may not repeat a stored value
\* UniqueOk without the index (shareToken declared without unique: true)
UniqueOff(id, token) == TRUE

UniqueOk(id, token) ==
  \A j \in Existing : j # id => assets[j].shareToken # token

----------------------------------------------------------------------------
(* Responses and suspended handlers *)

\* what the latest handler let out: the status, the text of a send(), the
\* fields of a json() body the claims read (url, shareToken, the ids of a
\* listing and those of them with hasPin true, isProtected, and the pin hashes
\* of the documents sent whole), and the values it interpolated into
\* console.log lines
Resp(op, status, msg, url, shareToken, ids) ==
  [op |-> op, status |-> status, msg |-> msg, url |-> url,
   shareToken |-> shareToken, ids |-> ids,
   hasPin |-> {}, isProtected |-> FALSE, pins |-> {}, log |-> {}]

Busy == BagCardinality(req)
Suspended == BagToSet(req)
Suspend(r) == req' = req (+) SetToBag({r})
Resume(r) == req' = req (-) SetToBag({r})

\* the dashboard before its first render: no assets, the PIN dialog closed,
\* no verification in flight, nothing opened or downloaded
NoAction == [none |-> TRUE]
Closed ==
  [assets |-> {}, hasPin |-> {}, pinModalOpen |-> FALSE, selectedAsset |-> NoAsset,
   actionType |-> Null, fetches |-> EmptyBag, done |-> NoAction]

Init ==
  /\ assets = [id \in Ids |-> NoAsset]
  /\ nextId = 1
  /\ req = EmptyBag
  /\ last = Resp("none", 0, "", NoUrl, Null, {})
  /\ issued = [id \in Ids |-> {}]
  /\ users = [a \in Accounts |-> NoUser]
  /\ jwt = {}
  /\ ui = Closed

----------------------------------------------------------------------------
(* POST /api/auth/signup.  A user id is the account it was made for: an     *)
(* account signs up once.                                                   *)

\* Role that makes every account a plain user
RoleUser(a) == "user"

\* role = (email.includes('admin') || adminEmails.includes(email)) ? 'admin' : 'user'
Role(a) ==
  IF Includes(Email(a), <<"a", "d", "m", "i", "n">>) \/ Email(a) \in AdminEmails
  THEN "admin" ELSE "user"

Signup(a) ==
  /\ IF users[a] # NoUser
     THEN /\ last' = Resp("signup", 400, "Email already exists", NoUrl, Null, {})
          /\ UNCHANGED <<users, jwt>>
     ELSE /\ a \notin jwt
          /\ users' = [users EXCEPT ![a] = [_id |-> a, role |-> Role(a)]]
          /\ jwt' = jwt \cup {a}
          /\ last' = Resp("signup", 200, "", NoUrl, Null, {})
  /\ UNCHANGED <<assets, nextId, req, issued>>

\* the auth middleware: jwt.verify accepts the tokens the server signed
Auth(u) == u \in jwt

\* the auth middleware on a request without a token, or with one that
\* jwt.verify rejects
Unauthorized(h) ==
  /\ last' = IF h = "missing"
             THEN Resp("auth", 401, "Access Denied", NoUrl, Null, {})
             ELSE Resp("auth", 400, "Invalid Token", NoUrl, Null, {})
  /\ UNCHANGED <<assets, nextId, req, issued, users, jwt>>

\* the pin hashes in a set of documents sent whole
PinsOf(docs) == {d.pin : d \in docs} \ {NullPin}

----------------------------------------------------------------------------
(* POST /api/assets/upload *)

HashedPin(visibility, pin) ==
  IF Truthy(pin) /\ visibility \in {"private", "shared"}
  THEN BcryptHash(pin.s) ELSE NullPin

\* UploadToken without the token of a 'shared' upload
UploadTokenNone(visibility, tok) == Null

UploadToken(visibility, tok) == IF visibility = "shared" THEN tok ELSE Null

\* NewAsset owned by the first user, whoever uploads
NewAssetFirstUser(id, u, visibility, pin, tok) ==
  [_id |-> id, userId |-> "u1",
   visibility |-> IF visibility = Null THEN "private" ELSE visibility,
   pin |-> HashedPin(visibility, pin),
   shareToken |-> UploadToken(visibility, tok),
   views |-> 0, downloads |-> 0, url |-> UrlOf(id)]

NewAsset(id, u, visibility, pin, tok) ==
  [_id |-> id, userId |-> u,
   visibility |-> IF visibility = Null THEN "private" ELSE visibility,
   pin |-> HashedPin(visibility, pin),
   shareToken |-> UploadToken(visibility, tok),
   views |-> 0, downloads |-> 0, url |-> UrlOf(id)]

Upload(u, file, visibility, pin, tok) ==
  /\ nextId <= MaxAssets
  /\ LET doc == NewAsset(nextId, u, visibility, pin, tok) IN
       IF ~file
       THEN /\ last' = Resp("upload", 400, "No file uploaded", NoUrl, Null, {})
            /\ UNCHANGED <<assets, nextId>>
       ELSE IF UniqueOk(nextId, doc.shareToken)
       THEN /\ assets' = [assets EXCEPT ![nextId] = doc]
            /\ nextId' = nextId + 1
            /\ last' = [Resp("upload", 200, "", doc.url, doc.shareToken, {})
                          EXCEPT !.pins = PinsOf({doc})]
       ELSE /\ last' = Resp("upload", 500, "E11000", NoUrl, Null, {})
            /\ UNCHANGED <<assets, nextId>>
  /\ UNCHANGED <<req, issued, users, jwt>>

----------------------------------------------------------------------------
(* GET /api/assets *)

OwnAssets(u) == {id \in Existing : assets[id].userId = u}

\* hasPin: !!asset.pin
HasPin(doc) == doc.pin # NullPin

ListAssets(u) ==
  /\ last' = [Resp("list", 200, "", NoUrl, Null, OwnAssets(u))
                EXCEPT !.hasPin = {id \in OwnAssets(u) : HasPin(assets[id])}]
  /\ UNCHANGED <<assets, nextId, req, issued, users, jwt>>

----------------------------------------------------------------------------
(* The PIN gate of delete and of share access: "ok", or the text of the 403 *)

\* PinGate without the if (asset.pin) guard around the check
PinGateUnguarded(doc, pin) ==
  IF ~Truthy(pin) THEN "PIN required"
  ELSE IF ~BcryptCompare(pin.s, doc.pin) THEN "Invalid PIN"
  ELSE "ok"

\* PinGate that lets every request through
PinGateOpen(doc, pin) == "ok"

PinGate(doc, pin) ==
  IF doc.pin = NullPin THEN "ok"
  ELSE IF ~Truthy(pin) THEN "PIN required"
  ELSE IF ~BcryptCompare(pin.s, doc.pin) THEN "Invalid PIN"
  ELSE "ok"

\* the gate of verify-pin, which compares String(pin).trim()
VerifyPinGate(doc, pin) ==
  IF doc.pin = NullPin THEN "ok"
  ELSE IF ~Truthy(pin) THEN "PIN required"
  ELSE IF ~BcryptCompare(Trim(pin.s), doc.pin) THEN "Invalid PIN"
  ELSE "ok"

\* the values verify-pin interpolates into its console.log lines: the pin of
\* the body ('Received PIN'), and the trimmed pin once the compare is reached
VerifyPinLog(doc, pin) ==
  {pin} \cup (IF doc # NoAsset /\ doc.pin # NullPin /\ Truthy(pin)
               THEN {Str(Trim(pin.s))} ELSE {})

\* VerifyPin counting a view of the asset it checks
VerifyPinCounting(u, id, pin) ==
  /\ last' = Resp("verifyPin", 200, "", NoUrl, Null, {})
  /\ assets' = IF Exists(id) /\ assets[id].views < MaxViews
               THEN [assets EXCEPT ![id].views = @ + 1] ELSE assets
  /\ UNCHANGED <<nextId, req, issued, users, jwt>>

(* POST /api/assets/:id/verify-pin *)
VerifyPin(u, id, pin) ==
  /\ LET doc == FindById(id)
         out == IF doc = NoAsset
                THEN Resp("verifyPin", 404, "Asset not found", NoUrl, Null, {})
                ELSE IF VerifyPinGate(doc, pin) # "ok"
                THEN Resp("verifyPin", 403, VerifyPinGate(doc, pin), NoUrl, Null, {})
                ELSE Resp("verifyPin", 200, "", NoUrl, Null, {})
     IN last' = [out EXCEPT !.log = VerifyPinLog(doc, pin)]
  /\ UNCHANGED <<assets, nextId, req, issued, users, jwt>>

----------------------------------------------------------------------------
(* DELETE /api/assets/:id *)

DeleteBegin(u, id, pin) ==
  /\ LET doc == FindOwned(id, u) IN
       IF doc = NoAsset
       THEN /\ last' = Resp("delete", 404, "Asset not found", NoUrl, Null, {})
            /\ UNCHANGED req
       ELSE IF PinGate(doc, pin) # "ok"
       THEN /\ last' = Resp("delete", 403, PinGate(doc, pin), NoUrl, Null, {})
            /\ UNCHANGED req
       ELSE /\ Suspend([op |-> "delete", _id |-> id])
            /\ UNCHANGED last
  /\ UNCHANGED <<assets, nextId, issued, users, jwt>>

\* Asset.findByIdAndDelete(req.params.id), then the response
DeleteFinish(r) ==
  /\ BagIn(r, req) /\ r.op = "delete"
  /\ assets' = [assets EXCEPT ![r._id] = NoAsset]
  /\ last' = Resp("delete", 200, "Deleted", NoUrl, Null, {})
  /\ Resume(r)
  /\ UNCHANGED <<nextId, issued, users, jwt>>

----------------------------------------------------------------------------
(* document.save() of a document that was read earlier: Mongoose sends a $set *)
(* of the paths whose value was changed on the local copy, filtered by _id.   *)
(* A suspended handler keeps of its document the paths it goes on to use.     *)

Modified(doc, local) == {f \in DOMAIN doc : local[f] # doc[f]}

\* "ok", or the error save() throws
SaveError(doc, local) ==
  IF Modified(doc, local) = {} THEN "ok"
  ELSE IF ~Exists(doc._id) THEN "DocumentNotFound"
  ELSE IF "shareToken" \in Modified(doc, local)
          /\ ~UniqueOk(doc._id, local.shareToken) THEN "E11000"
  ELSE "ok"

\* the collection after a save() that threw nothing
Saved(doc, local) ==
  IF Modified(doc, local) = {} THEN assets
  ELSE [assets EXCEPT ![doc._id] =
          [f \in DOMAIN @ |-> IF f \in Modified(doc, local) THEN local[f] ELSE @[f]]]

----------------------------------------------------------------------------
(* POST /api/assets/:id/share *)

ShareBegin(u, id) ==
  /\ LET doc == FindOwned(id, u) IN
       IF doc = NoAsset
       THEN /\ last' = Resp("share", 404, "Not found", NoUrl, Null, {})
            /\ UNCHANGED req
       ELSE /\ Suspend([op |-> "share", _id |-> id, visibility |-> doc.visibility,
                        shareToken |-> doc.shareToken])
            /\ UNCHANGED last
  /\ UNCHANGED <<assets, nextId, issued, users, jwt>>

\* ShareToken without the if (!asset.shareToken) guard: a fresh token every call
ShareTokenFresh(doc, tok) == tok

\* if (!asset.shareToken) asset.shareToken = crypto.randomBytes(16).toString('hex')
ShareToken(doc, tok) == IF doc.shareToken = Null THEN tok ELSE doc.shareToken

\* ShareLocal taking the asset back to 'private' without a token
ShareLocalUnshare(doc, tok) ==
  [doc EXCEPT !.visibility = "private", !.shareToken = Null]

ShareLocal(doc, tok) ==
  [doc EXCEPT !.visibility = "shared", !.shareToken = ShareToken(doc, tok)]

ShareFinish(r, tok) ==
  /\ BagIn(r, req) /\ r.op = "share"
  /\ LET local == ShareLocal(r, tok) IN
       IF SaveError(r, local) = "ok"
       THEN /\ assets' = Saved(r, local)
            /\ last' = Resp("share", 200, "", NoUrl, local.shareToken, {})
            /\ issued' = [issued EXCEPT ![r._id] = @ \cup {local.shareToken}]
       ELSE /\ last' = Resp("share", 500, SaveError(r, local), NoUrl, Null, {})
            /\ UNCHANGED <<assets, issued>>
  /\ Resume(r)
  /\ UNCHANGED <<nextId, users, jwt>>

----------------------------------------------------------------------------
(* GET /api/share?token= *)

ViewLocal(doc) == [doc EXCEPT !.views = doc.views + 1]

\* populate('userId', 'name'): the owner's document, or null when there is none;
\* ownerName: asset.userId.name then throws
Populate(u) == users[u]

GetShareBegin(token) ==
  /\ IF token = Null
     THEN /\ last' = Resp("getShare", 400, "Token required", NoUrl, Null, {})
          /\ UNCHANGED req
     ELSE LET doc == FindByShareToken(token) IN
          IF doc = NoAsset
          THEN /\ last' = Resp("getShare", 404, "Asset not found", NoUrl, Null, {})
               /\ UNCHANGED req
          ELSE IF Populate(doc.userId) = NoUser
          THEN /\ last' = Resp("getShare", 500, "TypeError", NoUrl, Null, {})
               /\ UNCHANGED req
          ELSE IF doc.pin # NullPin
          THEN /\ last' = [Resp("getShare", 200, "", NoUrl, Null, {})
                             EXCEPT !.isProtected = TRUE]
               /\ UNCHANGED req
          ELSE /\ Suspend([op |-> "getShare", token |-> token, _id |-> doc._id,
                           views |-> doc.views, url |-> doc.url])
               /\ UNCHANGED last
  /\ UNCHANGED <<assets, nextId, issued, users, jwt>>

\* asset.views += 1; await asset.save(); the response follows the save
ViewFinish(r) ==
  /\ BagIn(r, req)
  /\ LET local == ViewLocal(r) IN
       IF SaveError(r, local) = "ok"
       THEN /\ assets' = Saved(r, local)
            /\ last' = Resp(r.op, 200, "", r.url, Null, {})
       ELSE /\ last' = Resp(r.op, 500, SaveError(r, local), NoUrl, Null, {})
            /\ UNCHANGED assets
  /\ Resume(r)
  /\ UNCHANGED <<nextId, issued, users, jwt>>

GetShareFinish(r) == r.op = "getShare" /\ ViewFinish(r)

----------------------------------------------------------------------------
(* POST /api/share/access *)

\* AccessBegin counting the view before the PIN check
AccessBeginCountFirst(token, pin) ==
  LET doc == FindByShareToken(token) IN
    /\ IF doc = NoAsset
       THEN /\ last' = Resp("access", 404, "Asset not found", NoUrl, Null, {})
            /\ UNCHANGED <<assets, req>>
       ELSE /\ assets' = [assets EXCEPT ![doc._id].views = @ + 1]
            /\ IF PinGate(doc, pin) # "ok"
               THEN /\ last' = Resp("access", 403, PinGate(doc, pin), NoUrl, Null, {})
                    /\ UNCHANGED req
               ELSE /\ Suspend([op |-> "access", token |-> token, _id |-> doc._id,
                                 views |-> doc.views, url |-> doc.url])
                    /\ UNCHANGED last
    /\ UNCHANGED <<nextId, issued, users, jwt>>

AccessBegin(token, pin) ==
  /\ LET doc == FindByShareToken(token) IN
       IF doc = NoAsset
       THEN /\ last' = Resp("access", 404, "Asset not found", NoUrl, Null, {})
            /\ UNCHANGED req
       ELSE IF PinGate(doc, pin) # "ok"
       THEN /\ last' = Resp("access", 403, PinGate(doc, pin), NoUrl, Null, {})
            /\ UNCHANGED req
       ELSE /\ Suspend([op |-> "access", token |-> token, _id |-> doc._id,
                        views |-> doc.views, url |-> doc.url])
            /\ UNCHANGED last
  /\ UNCHANGED <<assets, nextId, issued, users, jwt>>

AccessFinish(r) == r.op = "access" /\ ViewFinish(r)

----------------------------------------------------------------------------
(* The admin routes.  adminAuth reads the caller's user document; the       *)
(* handler's own reads and writes follow an await.                          *)

\* AdminAuth by the role the caller's token was signed with
AdminAuthByToken(a) == Role(a) = "admin"

\* adminAuth: user && user.role === 'admin'
AdminAuth(a) == users[a] # NoUser /\ users[a].role = "admin"

Forbidden(op) == Resp(op, 403, "Admin Access Required", NoUrl, Null, {})

(* GET /api/admin/stats: recentUploads holds whole Asset documents *)
AdminStats(a) ==
  /\ last' = IF AdminAuth(a)
             THEN [Resp("stats", 200, "", NoUrl, Null, Existing)
                     EXCEPT !.pins = PinsOf({assets[id] : id \in Existing})]
             ELSE Forbidden("stats")
  /\ UNCHANGED <<assets, nextId, req, issued, users, jwt>>

(* GET /api/admin/users *)
AdminUsers(a) ==
  /\ last' = IF AdminAuth(a)
             THEN Resp("users", 200, "", NoUrl, Null,
                       {x \in Accounts : users[x] # NoUser})
             ELSE Forbidden("users")
  /\ UNCHANGED <<assets, nextId, req, issued, users, jwt>>

(* DELETE /api/admin/users/:id *)
AdminDeleteBegin(a, id) ==
  /\ IF AdminAuth(a)
     THEN /\ Suspend([op |-> "adminDelete", _id |-> id])
          /\ UNCHANGED last
     ELSE /\ last' = Forbidden("adminDelete")
          /\ UNCHANGED req
  /\ UNCHANGED <<assets, nextId, issued, users, jwt>>

Deleted == Resp("adminDelete", 200, "User and their assets deleted", NoUrl, Null, {})

\* User.findByIdAndDelete(req.params.id); without a document the handler
\* responds at once
AdminDeleteUser(r) ==
  /\ BagIn(r, req) /\ r.op = "adminDelete"
  /\ IF users[r._id] # NoUser
     THEN /\ users' = [users EXCEPT ![r._id] = NoUser]
          /\ req' = (req (-) SetToBag({r}))
                      (+) SetToBag({[op |-> "deleteMany", _id |-> r._id]})
          /\ UNCHANGED last
     ELSE /\ last' = Deleted
          /\ Resume(r)
          /\ UNCHANGED users
  /\ UNCHANGED <<assets, nextId, issued, jwt>>

\* Asset.deleteMany({ userId: user._id }), then the response
AdminDeleteAssets(r) ==
  /\ BagIn(r, req) /\ r.op = "deleteMany"
  /\ assets' = [id \in Ids |->
                  IF Exists(id) /\ assets[id].userId = r._id
                  THEN NoAsset ELSE assets[id]]
  /\ last' = Deleted
  /\ Resume(r)
  /\ UNCHANGED <<nextId, issued, users, jwt>>

\* the admin routes under the requests of the callers C on the accounts T, with
\* at most k requests in flight at a time
Admin(C, T, k) ==
  \/ \E a \in C : Busy < k /\ Signup(a) /\ UNCHANGED ui
  \/ \E h \in {"missing", "invalid"} :
       Busy < k /\ Unauthorized(h) /\ UNCHANGED ui
  \/ \E a \in C : Auth(a) /\ Busy < k /\ AdminStats(a) /\ UNCHANGED ui
  \/ \E a \in C : Auth(a) /\ Busy < k /\ AdminUsers(a) /\ UNCHANGED ui
  \/ \E a \in C, id \in T :
       Auth(a) /\ Busy < k /\ AdminDeleteBegin(a, id) /\ UNCHANGED ui
  \/ \E r \in Suspended : AdminDeleteUser(r) /\ UNCHANGED ui
  \/ \E r \in Suspended : AdminDeleteAssets(r) /\ UNCHANGED ui

----------------------------------------------------------------------------
(* The server: a request may arrive at any time and a suspended handler may  *)
(* resume at any time.  Server(U, V, P, k, m) is the server under the        *)
(* requests of the users U, with upload visibilities V and PIN values P,     *)
(* with at most k requests in flight at a time (a request arrives while     *)
(* fewer than k handlers are suspended), and with anonymous reads of an      *)
(* asset arriving while its view counter is below m.                         *)

Visibilities == {Null, "private", "shared", "public"}
TokenParams == Tokens \cup {Null}

\* a read that will count a view arrives only while the counter is below m
Below(token, pin, m) ==
  LET doc == FindByShareToken(token)
  IN (doc # NoAsset /\ PinGate(doc, pin) = "ok") => doc.views < m

\* req.header('x-asset-pin'): a header value arrives without the whitespace
\* around it
HeaderPins(P) == {p \in P : p.s = Trim(p.s)}

\* what req.header('x-asset-pin') holds when the client sent the value p
HeaderValue(p) == IF p.given THEN Str(Trim(p.s)) ELSE Absent

Server(U, V, P, k, m) ==
  \/ \E u \in U : Busy < k /\ Signup(u) /\ UNCHANGED ui
  \/ \E u \in U, f \in BOOLEAN, v \in V, p \in P, t \in Tokens :
       Auth(u) /\ Busy < k /\ Upload(u, f, v, p, t) /\ UNCHANGED ui
  \/ \E u \in U : Auth(u) /\ Busy < k /\ ListAssets(u) /\ UNCHANGED ui
  \/ \E u \in U, id \in Ids, p \in P :
       Auth(u) /\ Busy < k /\ VerifyPin(u, id, p) /\ UNCHANGED ui
  \/ \E u \in U, id \in Ids, p \in HeaderPins(P) :
       Auth(u) /\ Busy < k /\ DeleteBegin(u, id, p) /\ UNCHANGED ui
  \/ \E r \in Suspended : DeleteFinish(r) /\ UNCHANGED ui
  \/ \E u \in U, id \in Ids :
       Auth(u) /\ Busy < k /\ ShareBegin(u, id) /\ UNCHANGED ui
  \/ \E r \in Suspended, t \in Tokens : ShareFinish(r, t) /\ UNCHANGED ui
  \/ \E t \in TokenParams :
       Busy < k /\ Below(t, Absent, m) /\ GetShareBegin(t) /\ UNCHANGED ui
  \/ \E r \in Suspended : GetShareFinish(r) /\ UNCHANGED ui
  \/ \E t \in TokenParams, p \in P :
       Busy < k /\ Below(t, p, m) /\ AccessBegin(t, p) /\ UNCHANGED ui
  \/ \E r \in Suspended : AccessFinish(r) /\ UNCHANGED ui

\* one PIN next to no PIN
OnePin == {Absent, Str(<<"1", "2">>)}
Owner == {"u1"}

\* the requests of one user interleaving at every await
Next == Server(Owner, Visibilities, OnePin, MaxInflight, MaxViews)
Spec == Init /\ [][Next]_vars

\* one request at a time (each handler runs to its response before the next
\* request arrives), with every PIN value
NextSeq == Server(Owner, Visibilities, JsPins, 1, MaxViews)
SpecSeq == Init /\ [][NextSeq]_vars

\* two users, one request at a time
NextOwn == Server(Users, {"private", "shared"}, OnePin, 1, MaxViews)
SpecOwn == Init /\ [][NextOwn]_vars

\* one user without PINs, one request at a time
NextOne == Server(Owner, {"private", "shared"}, {Absent}, 1, MaxViews)
SpecOne == Init /\ [][NextOne]_vars

\* anonymous reads of shared assets without PINs interleaving, with one more
\* view per asset
NextViews == Server(Owner, {"shared"}, {Absent}, MaxInflight, MaxViews + 1)
SpecViews == Init /\ [][NextViews]_vars

\* one user and one admin, their requests interleaving at every await
NextAdmin ==
  \/ Server(Owner, {"shared"}, {Absent}, MaxInflight, MaxViews)
  \/ Admin(Owner \cup Admins, Owner \cup Admins, MaxInflight)
SpecAdmin == Init /\ [][NextAdmin]_vars

\* one user and one admin, one request at a time
NextAdminSeq ==
  \/ Server(Owner, {"shared"}, OnePin, 1, MaxViews)
  \/ Admin(Owner \cup Admins, Owner \cup Admins, 1)
SpecAdminSeq == Init /\ [][NextAdminSeq]_vars

\* one user with PINs and an admin acting on that user, their requests
\* interleaving at every await
NextFrame ==
  \/ Server(Owner, {"shared"}, OnePin, MaxInflight, MaxViews)
  \/ Admin(Admins, Owner, MaxInflight)
SpecFrame == Init /\ [][NextFrame]_vars

\* every account signing up and calling the admin routes, next to the
\* requests of one user, one request at a time
NextRoles ==
  \/ Server(Owner, {"shared"}, {Absent}, 1, MaxViews)
  \/ Admin(Accounts, Accounts, 1)
SpecRoles == Init /\ [][NextRoles]_vars

----------------------------------------------------------------------------
(* Failures of the repository.  Every handler body is a try block whose     *)
(* catch sends 500 with the error's message; adminAuth has its own.  An      *)
(* awaited operation that rejects (an error of the database, a timeout of    *)
(* the driver) ends the handler in that catch, before it wrote anything      *)
(* more.                                                                     *)

Failed(op) == Resp(op, 500, "err.message", NoUrl, Null, {})

Routes == {"signup", "stats", "users", "adminDelete", "upload", "list",
           "delete", "share", "getShare", "access", "verifyPin"}

\* the route a suspended handler serves
RouteOf(r) == IF r.op = "deleteMany" THEN "adminDelete" ELSE r.op

\* the first awaited operation of a handler rejects
FailAtOnce(op) ==
  /\ last' = Failed(op)
  /\ UNCHANGED <<assets, nextId, req, issued, users, jwt>>

\* Fail whose catch block sends nothing: the request stays open for ever
FailHang(r) ==
  /\ BagIn(r, req)
  /\ req' = (req (-) SetToBag({r})) (+) SetToBag({[op |-> "hung"]})
  /\ UNCHANGED <<assets, nextId, last, issued, users, jwt>>

\* the operation a suspended handler awaits rejects
Fail(r) ==
  /\ BagIn(r, req)
  /\ last' = Failed(RouteOf(r))
  /\ Resume(r)
  /\ UNCHANGED <<assets, nextId, issued, users, jwt>>

Failures(k) ==
  \/ \E op \in Routes : Busy < k /\ FailAtOnce(op) /\ UNCHANGED ui
  \/ \E r \in Suspended : Fail(r) /\ UNCHANGED ui

\* a suspended handler takes its next step: the operation it awaits settles,
\* one way or the other
Settle ==
  \E r \in Suspended :
    \/ DeleteFinish(r) /\ UNCHANGED ui
    \/ \E t \in Tokens : ShareFinish(r, t) /\ UNCHANGED ui
    \/ GetShareFinish(r) /\ UNCHANGED ui
    \/ AccessFinish(r) /\ UNCHANGED ui
    \/ AdminDeleteUser(r) /\ UNCHANGED ui
    \/ AdminDeleteAssets(r) /\ UNCHANGED ui
    \/ Fail(r) /\ UNCHANGED ui

\* one user with PINs and an admin acting on that user, one request at a
\* time, every awaited operation free to fail.  The event loop runs the
\* continuation of every promise that settled.
NextLive ==
  \/ Server(Owner, {"shared"}, OnePin, 1, MaxViews)
  \/ Admin(Admins, Owner, 1)
  \/ Failures(1)
SpecLive == Init /\ [][NextLive]_vars /\ WF_vars(Settle)

----------------------------------------------------------------------------
(* The owner's dashboard (HomePage.tsx).  ui.assets and ui.hasPin are the    *)
(* listing it fetched (the ids, and those with hasPin true); ui.fetches are  *)
(* the verify-pin calls whose response has not yet been handled, each with   *)
(* the asset and the action of the render that made the call; ui.done is     *)
(* what the latest step of the dashboard opened or downloaded.               *)

server == <<assets, nextId, req, last, issued, users, jwt>>

ActionTypes == {"open", "download"}

\* the PINs typed into the dialog: nothing, the right one, a wrong one
PinInputs == {Str(<<>>), Str(<<"1", "2">>), Str(<<"9">>)}

\* performOpen(asset) / performDownload(asset)
Perform(id, type) == [id |-> id, type |-> type]

\* useEffect: GET /api/assets, then setAssets(data)
LoadAssets(u) ==
  /\ ListAssets(u)
  /\ ui' = [ui EXCEPT !.assets = last'.ids, !.hasPin = last'.hasPin,
                      !.done = NoAction]

\* handleActionClick(asset, type) on an asset of the listing (the server
\* gives every asset a url)
handleActionClick(id, type) ==
  /\ id \in ui.assets
  /\ ui' = IF id \in ui.hasPin
           THEN [ui EXCEPT !.selectedAsset = [id |-> id], !.actionType = type,
                           !.pinModalOpen = TRUE, !.done = NoAction]
           ELSE [ui EXCEPT !.done = Perform(id, type)]
  /\ UNCHANGED server

\* the dialog is dismissed: onOpenChange(false)
Dismiss ==
  /\ ui.pinModalOpen
  /\ ui' = [ui EXCEPT !.pinModalOpen = FALSE, !.done = NoAction]
  /\ UNCHANGED server

\* what a call of verifyAndProceed waits for: the response, and the
\* selectedAsset and actionType of the render it was called in
Fetch(status) ==
  [id |-> ui.selectedAsset.id, type |-> ui.actionType, status |-> status]

\* verifyAndProceed up to its await, the request reaching the server; at most
\* n calls wait at a time
verifyAndProceed(u, pin, n) ==
  /\ ui.pinModalOpen /\ ui.selectedAsset # NoAsset
  /\ BagCardinality(ui.fetches) < n
  /\ VerifyPin(u, ui.selectedAsset.id, pin)
  /\ ui' = [ui EXCEPT !.fetches = @ (+) SetToBag({Fetch(last'.status)}),
                      !.done = NoAction]

\* verifyAndProceed up to its await, the request not reaching the server:
\* fetch rejects
Unreachable(n) ==
  /\ ui.pinModalOpen /\ ui.selectedAsset # NoAsset
  /\ BagCardinality(ui.fetches) < n
  /\ ui' = [ui EXCEPT !.fetches = @ (+) SetToBag({Fetch(0)}),
                      !.done = NoAction]
  /\ UNCHANGED server

\* Proceed that does not look at res.ok
ProceedAnyway(f) ==
  /\ BagIn(f, ui.fetches)
  /\ ui' = [ui EXCEPT !.fetches = @ (-) SetToBag({f}),
                      !.pinModalOpen = FALSE,
                      !.done = Perform(f.id, f.type)]
  /\ UNCHANGED server

\* verifyAndProceed after its await: if (!res.ok) a toast and return, catch a
\* toast; on success the dialog closes and the action is performed
Proceed(f) ==
  /\ BagIn(f, ui.fetches)
  /\ ui' = IF f.status = 200
           THEN [ui EXCEPT !.fetches = @ (-) SetToBag({f}),
                           !.pinModalOpen = FALSE,
                           !.done = Perform(f.id, f.type)]
           ELSE [ui EXCEPT !.fetches = @ (-) SetToBag({f}),
                           !.done = NoAction]
  /\ UNCHANGED server

\* the dashboard of user u, with at most n verifications waiting
Dashboard(u, k, n) ==
  \/ Auth(u) /\ Busy < k /\ LoadAssets(u)
  \/ \E id \in Ids, type \in ActionTypes : handleActionClick(id, type)
  \/ Dismiss
  \/ \E pin \in PinInputs : Auth(u) /\ Busy < k /\ verifyAndProceed(u, pin, n)
  \/ Unreachable(n)
  \/ \E f \in BagToSet(ui.fetches) : Proceed(f)

\* the dashboard of one user, next to that user signing up, uploading private
\* assets with and without a PIN, and deleting them
NextUi ==
  \/ \E u \in Owner : Busy < 1 /\ Signup(u) /\ UNCHANGED ui
  \/ \E u \in Owner, p \in OnePin, t \in Tokens :
       Auth(u) /\ Busy < 1 /\ Upload(u, TRUE, "private", p, t) /\ UNCHANGED ui
  \/ \E u \in Owner, id \in Ids, p \in OnePin :
       Auth(u) /\ Busy < 1 /\ DeleteBegin(u, id, p) /\ UNCHANGED ui
  \/ \E r \in Suspended : DeleteFinish(r) /\ UNCHANGED ui
  \/ \E u \in Owner : Dashboard(u, 1, MaxInflight)
SpecUi == Init /\ [][NextUi]_vars

----------------------------------------------------------------------------
(* Claims *)

\* C1: an anonymous GET /share or POST /share/access returns an asset's url or
\* bumps its view counter only if the request carries a non-null token equal
\* to that asset's shareToken; an asset that holds no share token is never
\* matched, also when the token is omitted or null.
C1_UrlOnlyByShareToken ==
  [][\A r \in Suspended :
       ((GetShareFinish(r) \/ AccessFinish(r))
          /\ (last'.url # NoUrl \/ assets'[r._id] # assets[r._id]))
       => (r.token # Null /\ assets[r._id].shareToken = r.token)]_vars

\* the PIN p is exactly the PIN the asset was created with
IsCreationPin(doc, p) == p.given /\ doc.pin = BcryptHash(p.s)

\* the response is the 403 the claims expect of the PIN p: 'PIN required' when
\* none was sent, 'Invalid PIN' for a wrong string (either for the empty string)
Denied(resp, p) ==
  /\ resp.status = 403
  /\ resp.msg \in {"PIN required", "Invalid PIN"}
  /\ ~p.given => resp.msg = "PIN required"
  /\ Truthy(p) => resp.msg = "Invalid PIN"

\* a delete or share-access request passed its PIN check: its handler goes on
\* to the write and to the 200
Passed == Busy' = Busy + 1

\* C2: on an asset with a PIN, owner delete, share access and verify-pin
\* succeed if and only if the supplied PIN is exactly the PIN given at
\* creation; no PIN is denied with 403 'PIN required' and any other string
\* with 403 'Invalid PIN'.  (p ranges over the values a handler receives.)
C2_ExactPinOnly ==
  [][/\ \A u \in Users, id \in Ids, p \in JsPins :
          (Exists(id) /\ assets[id].pin # NullPin) =>
            /\ VerifyPin(u, id, p) =>
                 IF IsCreationPin(assets[id], p)
                 THEN last'.status = 200 ELSE Denied(last', p)
            /\ (assets[id].userId = u /\ DeleteBegin(u, id, p)) =>
                 IF IsCreationPin(assets[id], p)
                 THEN Passed ELSE Denied(last', p)
     /\ \A t \in TokenParams, p \in JsPins :
          (FindByShareToken(t) # NoAsset /\ FindByShareToken(t).pin # NullPin
             /\ AccessBegin(t, p)) =>
            IF IsCreationPin(FindByShareToken(t), p)
            THEN Passed ELSE Denied(last', p)
     /\ \A r \in Suspended :
          (DeleteFinish(r) \/ AccessFinish(r)) => last'.status = 200]_vars

\* C3: on an asset without a PIN, verify-pin, owner delete and share access all
\* succeed whatever PIN is supplied, and when none is.
C3_NoPinAlwaysPasses ==
  [][/\ \A u \in Users, id \in Ids, p \in JsPins :
          (Exists(id) /\ assets[id].pin = NullPin) =>
            /\ VerifyPin(u, id, p) => last'.status = 200
            /\ (assets[id].userId = u /\ DeleteBegin(u, id, p)) => Passed
     /\ \A t \in TokenParams, p \in JsPins :
          (FindByShareToken(t) # NoAsset /\ FindByShareToken(t).pin = NullPin
             /\ AccessBegin(t, p)) => Passed
     /\ \A r \in Suspended :
          /\ DeleteFinish(r) => (last'.status = 200 /\ ~Exists(r._id)')
          /\ AccessFinish(r) => (last'.status = 200 /\ last'.url = UrlOf(r._id))]_vars

\* a share access of an asset without a PIN got the url and counted a view
C3_Witness ==
  /\ last.op = "access" /\ last.status = 200
  /\ \E id \in Existing : assets[id].pin = NullPin /\ last.url = UrlOf(id)
                          /\ assets[id].views > 0

\* the part of C4 about the three routes it names: DELETE /assets/{id} and
\* POST /assets/{id}/share on an asset of another user respond 404 and change
\* nothing, and GET /assets lists only the caller's assets
C4_OwnerFilter ==
  /\ \A u \in Users, id \in Ids :
       (Exists(id) /\ assets[id].userId # u) =>
         /\ \A p \in JsPins : DeleteBegin(u, id, p) =>
              (last'.status = 404 /\ assets' = assets /\ req' = req)
         /\ ShareBegin(u, id) =>
              (last'.status = 404 /\ assets' = assets /\ req' = req)
  /\ \A u \in Users : ListAssets(u) =>
       \A id \in last'.ids : Exists(id) /\ assets[id].userId = u

\* the routes without the auth middleware serve every caller, the owner or
\* not: none of them returns the url of a private asset or changes it
C4_PrivateStaysPrivate ==
  \A r \in Suspended :
    ((GetShareFinish(r) \/ AccessFinish(r)) /\ Exists(r._id)
       /\ assets[r._id].visibility = "private")
    => (last'.url = NoUrl /\ assets'[r._id] = assets[r._id])

\* C4: a user who is neither the owner nor an admin cannot delete, view or
\* modify another user's private asset: delete and generate-share respond 404
\* and leave the asset unchanged, and the listing holds only the caller's
\* assets.
C4_Isolation == [][C4_OwnerFilter /\ C4_PrivateStaysPrivate]_vars

\* C5: a second generate-share call on an asset returns the token the first
\* call returned and changes neither the stored token nor the visibility.
C5_ShareIdempotent ==
  [][\A r \in Suspended, t \in Tokens :
       (ShareFinish(r, t) /\ issued[r._id] # {}) =>
         /\ last'.status = 200
         /\ issued[r._id] = {last'.shareToken}
         /\ assets'[r._id] = assets[r._id]]_vars

\* a generate-share call has read an asset whose token an earlier call returned
C5_Witness ==
  \E r \in Suspended :
    /\ r.op = "share" /\ issued[r._id] = {r.shareToken}
    /\ r.visibility = "shared" /\ Exists(r._id)

\* C6: two concurrent generate-share calls on an asset without a token never
\* assign two tokens: every caller receives the same token, and it is the one
\* stored on the asset.
C6_OneTokenPerAsset ==
  \A id \in Ids :
    /\ Cardinality(issued[id]) <= 1
    /\ (Exists(id) /\ issued[id] # {}) => issued[id] = {assets[id].shareToken}

\* C7: no two distinct assets hold the same non-null shareToken.
C7_TokensUnique ==
  \A i \in Existing, j \in Existing :
    (i # j /\ assets[i].shareToken # Null) =>
      assets[i].shareToken # assets[j].shareToken

\* two assets hold a share token each
C7_Witness ==
  \E i \in Existing, j \in Existing :
    i # j /\ assets[i].shareToken # Null /\ assets[j].shareToken # Null

\* C8: once an asset's shareToken is non-null it keeps its value in every
\* later state until the asset is deleted.
C8_TokenNeverRotated ==
  [][\A id \in Ids :
       (Exists(id) /\ assets[id].shareToken # Null /\ Exists(id)') =>
         assets'[id].shareToken = assets[id].shareToken]_vars

\* the token t is held by an asset other than id
HeldByOther(id, t) == \E j \in Existing : j # id /\ assets[j].shareToken = t

\* C9: when the token freshly generated by an upload with visibility 'shared'
\* or by generate-share equals one another asset holds, the operation still
\* succeeds, with a distinct token, and the caller sees no failure.
C9_CollisionHandled ==
  [][/\ \A u \in Users, p \in JsPins, t \in Tokens :
          (Upload(u, TRUE, "shared", p, t) /\ HeldByOther(nextId, t)) =>
            /\ last'.status = 200
            /\ Exists(nextId)' /\ ~HeldByOther(nextId, assets'[nextId].shareToken)
     /\ \A r \in Suspended, t \in Tokens :
          (ShareFinish(r, t) /\ r.shareToken = Null /\ Exists(r._id)
             /\ HeldByOther(r._id, t)) =>
            /\ last'.status = 200
            /\ ~HeldByOther(r._id, assets'[r._id].shareToken)]_vars

\* C10: every asset whose visibility is 'shared' has a non-null shareToken.
C10_SharedHasToken ==
  \A id \in Existing :
    assets[id].visibility = "shared" => assets[id].shareToken # Null

\* one asset shared at upload and one shared through generate-share
C10_Witness ==
  \E i \in Existing, j \in Existing :
    /\ assets[i].visibility = "shared" /\ issued[i] = {}
    /\ assets[j].visibility = "shared" /\ issued[j] # {}

\* C11: GET /share?token=T for a token held by an asset: without a PIN the
\* response carries the url with isProtected false and the view counter grows
\* by exactly 1 per call; with a PIN the response has isProtected true and no
\* url, and the view counter is unchanged.
C11_GetShare ==
  [][/\ \A t \in Tokens :
          (FindByShareToken(t) # NoAsset /\ GetShareBegin(t)) =>
            IF HasPin(FindByShareToken(t))
            THEN /\ last'.status = 200 /\ last'.isProtected
                 /\ last'.url = NoUrl
                 /\ assets' = assets /\ req' = req
            ELSE Passed
     /\ \A r \in Suspended :
          GetShareFinish(r) =>
            /\ last'.status = 200 /\ ~last'.isProtected
            /\ last'.url = UrlOf(r._id)
            /\ assets'[r._id].views = assets[r._id].views + 1]_vars

\* C12: POST /share/access with the token of an asset with a PIN returns the
\* url and grows the view counter by exactly 1 when the PIN is the asset's, and
\* responds 403 without the url when the PIN is wrong or missing.
C12_AccessWithPin ==
  [][/\ \A t \in Tokens, p \in JsPins :
          (FindByShareToken(t) # NoAsset /\ HasPin(FindByShareToken(t))
             /\ AccessBegin(t, p)) =>
            IF IsCreationPin(FindByShareToken(t), p)
            THEN Passed
            ELSE /\ last'.op = "access" /\ last'.status = 403
                 /\ last'.url = NoUrl
                 /\ assets' = assets /\ req' = req
     /\ \A r \in Suspended :
          (AccessFinish(r) /\ r.token # Null /\ Exists(r._id)
             /\ HasPin(assets[r._id])) =>
            /\ last'.status = 200 /\ last'.url = UrlOf(r._id)
            /\ assets'[r._id].views = assets[r._id].views + 1]_vars

\* a share access with the right PIN got the url of a protected asset and
\* counted a view
C12_Witness ==
  /\ last.op = "access" /\ last.status = 200
  /\ \E id \in Existing :
       /\ HasPin(assets[id]) /\ assets[id].shareToken # Null
       /\ last.url = UrlOf(id) /\ assets[id].views > 0

C14_NoLostView ==
  [][\A r \in Suspended :
       ((GetShareFinish(r) \/ AccessFinish(r)) /\ last'.status = 200
          /\ Exists(r._id) /\ ~HasPin(assets[r._id])) =>
         assets'[r._id].views = assets[r._id].views + 1]_vars

\* C15: the view and download counters of an asset never decrease while the
\* asset exists.
C15_CountersMonotone ==
  [][\A id \in Ids :
       (Exists(id) /\ Exists(id)') =>
         /\ assets'[id].views >= assets[id].views
         /\ assets'[id].downloads >= assets[id].downloads]_vars

\* C16: no stored asset record and no console.log line holds a raw PIN that a
\* request supplied; only the hash is stored.
C16_NoRawPin ==
  /\ \A e \in last.log : ~Truthy(e)
  /\ \A id \in Existing, s \in PinStrings :
       s # <<>> => assets[id].pin # s

\* the minimum length of a PIN (the upload form's check)
MinPinLength == 4

\* C17: an upload that sets a PIN which is empty or shorter than the minimum
\* length fails with a 400-class error and creates no asset.
C17_PinPolicy ==
  [][\A u \in Users, v \in {"private", "shared"}, p \in JsPins, t \in Tokens :
       (Upload(u, TRUE, v, p, t) /\ p.given /\ Len(p.s) < MinPinLength) =>
         /\ last'.status \in 400..499
         /\ assets' = assets]_vars

\* the part of C18 about the flags: hasPin and isProtected are true exactly
\* when a hash is stored
C18_FlagsExact ==
  /\ \A u \in Users : ListAssets(u) =>
       last'.hasPin = {id \in last'.ids : assets[id].pin # NullPin}
  /\ \A t \in Tokens :
       (FindByShareToken(t) # NoAsset /\ FindByShareToken(t).pin # NullPin
          /\ GetShareBegin(t)) => last'.isProtected
  /\ \A r \in Suspended :
       (GetShareFinish(r) /\ last'.status = 200) =>
         (~last'.isProtected /\ assets[r._id].pin = NullPin)

\* C18: no response of any endpoint carries the stored PIN hash; PIN status is
\* exposed only as the boolean hasPin / isProtected, true exactly when a hash
\* is stored.
C18_HashNeverReturned == [][last'.pins = {} /\ C18_FlagsExact]_vars

\* DELETE /admin/users/{id} has completed for the account a: its user document
\* is gone and no cascade for it is pending
DeletionCompleted(a) ==
  /\ a \in jwt /\ users[a] = NoUser
  /\ \A r \in Suspended : ~(r.op = "deleteMany" /\ r._id = a)

\* the part of C19 about the moment of completion: when the cascade of a
\* deletion ends, no asset of the deleted user is left
C19_EmptyAtCompletion ==
  [][\A r \in Suspended :
       AdminDeleteAssets(r) =>
         \A id \in Ids : assets'[id] # NoAsset => assets'[id].userId # r._id]_vars

\* C19: once DELETE /admin/users/{id} has completed for user U, no asset owned
\* by U exists: the listing by U's id is empty and no id or share token
\* reaches an asset of U.
C19_CascadeComplete ==
  \A a \in Accounts : DeletionCompleted(a) => OwnAssets(a) = {}

\* the stored user record of the caller has role 'admin'
StoredAdmin(a) == users[a] # NoUser /\ users[a].role = "admin"

\* the caller is denied with 403 and no user or asset is changed
Refused ==
  /\ last'.status = 403
  /\ assets' = assets /\ users' = users /\ req' = req

\* C20: stats, user listing and delete user are let through only for a caller
\* whose stored user record has role 'admin' when the request is authorised;
\* any other authenticated caller, one whose record no longer exists and one
\* whose token was signed with role admin included, is denied with 403 and no
\* user or asset is changed; a user record is removed only by a delete-user
\* request that was let through.
C20_AdminOnly ==
  [][/\ \A a \in Accounts :
          /\ (Auth(a) /\ AdminStats(a)) =>
               IF StoredAdmin(a) THEN last'.status = 200 ELSE Refused
          /\ (Auth(a) /\ AdminUsers(a)) =>
               IF StoredAdmin(a) THEN last'.status = 200 ELSE Refused
          /\ \A id \in Accounts :
               (Auth(a) /\ AdminDeleteBegin(a, id)) =>
                 IF StoredAdmin(a)
                 THEN Passed /\ [op |-> "adminDelete", _id |-> id] \in Suspended'
                 ELSE Refused
     /\ \A x \in Accounts :
          (users[x] # NoUser /\ users'[x] = NoUser) =>
            [op |-> "adminDelete", _id |-> x] \in Suspended]_vars

\* an admin whose record was deleted, the only holder of a token, was denied
\* the deletion of a user
C20_Witness ==
  /\ jwt = Admins /\ \A a \in Admins : users[a] = NoUser
  /\ last.op = "adminDelete" /\ last.status = 403

\* C22: failure causes have distinct signals: a missing or invalid identity
\* token yields 401 / 400, a valid identity without the privilege yields 403,
\* and every request naming an asset id, user id or share token that matches
\* no record (admin delete of a non-existent user included) yields 404.
C22_DistinctSignals ==
  [][/\ \A h \in {"missing", "invalid"} :
          Unauthorized(h) => last'.status \in {400, 401}
     /\ \A a \in Accounts, x \in Accounts :
          (~StoredAdmin(a) /\ AdminDeleteBegin(a, x)) => last'.status = 403
     /\ \A id \in Ids :
          ~Exists(id) =>
            \A u \in Users :
              /\ ShareBegin(u, id) => last'.status = 404
              /\ \A p \in OnePin :
                   (VerifyPin(u, id, p) \/ DeleteBegin(u, id, p)) =>
                     last'.status = 404
     /\ \A t \in Tokens :
          FindByShareToken(t) = NoAsset =>
            /\ GetShareBegin(t) => last'.status = 404
            /\ \A p \in OnePin : AccessBegin(t, p) => last'.status = 404
     /\ \A r \in Suspended :
          (AdminDeleteUser(r) /\ users[r._id] = NoUser) =>
            last'.status = 404]_vars

\* C23: the owner recorded on an asset at upload is the authenticated
\* uploader, and no operation changes it while the asset exists.
C23_OwnerImmutable ==
  [][/\ (last'.op = "upload" /\ last'.status = 200 /\ nextId' = nextId + 1) =>
          \A u \in Users, v \in Visibilities, p \in JsPins, t \in Tokens :
            Upload(u, TRUE, v, p, t) => assets'[nextId].userId = u
     /\ \A id \in Ids :
          (Exists(id) /\ Exists(id)') => assets'[id].userId = assets[id].userId]_vars

\* two users own an asset each, and one of the assets went through
\* generate-share
C23_Witness ==
  \E i \in Existing, j \in Existing :
    /\ assets[i].userId = "u1" /\ assets[j].userId = "u2"
    /\ issued[i] # {} \/ issued[j] # {}

\* C24: no operation removes a share token, takes an asset from 'shared' back
\* to 'private', or sets 'public' on an existing asset; the only visibility
\* change after creation is to 'shared'.
C24_NoReverseEdge ==
  [][\A id \in Ids :
       (Exists(id) /\ Exists(id)') =>
         /\ assets[id].shareToken # Null => assets'[id].shareToken # Null
         /\ assets'[id].visibility # assets[id].visibility =>
              assets'[id].visibility = "shared"]_vars

\* generate-share was just answered, next to an asset that stayed 'public'
C24_Witness ==
  /\ last.op = "share" /\ last.status = 200
  /\ \E i \in Existing, j \in Existing :
       /\ assets[i].visibility = "shared" /\ last.shareToken = assets[i].shareToken
       /\ assets[j].visibility = "public"

\* C26: for the same asset and the same supplied PIN string, owner delete,
\* POST /share/access and verify-pin reach the same decision with the same
\* sub-reason, also for strings with whitespace around them and for the empty
\* string.
C26_GatesAgree ==
  \A id \in Existing, p \in JsPins :
    /\ VerifyPinGate(assets[id], p) = PinGate(assets[id], p)
    /\ PinGate(assets[id], HeaderValue(p)) = PinGate(assets[id], p)

\* C27: an asset is never created for an owner without a user record: a
\* request bearing the token of a deleted user cannot create an asset.
C27_OwnerExists ==
  [][\A id \in Ids :
       (~Exists(id) /\ Exists(id)') => users'[assets'[id].userId] # NoUser]_vars

\* C28: the views and downloads of a surviving asset change only in a
\* successful anonymous share read (GET /share or POST /share/access answered
\* 200); every other operation leaves them as they are.
C28_ViewsOnlyByShareReads ==
  [][\A id \in Ids :
       (Exists(id) /\ Exists(id)'
          /\ (assets'[id].views # assets[id].views
                \/ assets'[id].downloads # assets[id].downloads)) =>
         \E r \in Suspended :
           /\ r.op \in {"getShare", "access"} /\ r._id = id
           /\ ViewFinish(r) /\ last'.status = 200]_vars

\* verify-pin was just denied on an asset that has been viewed
C28_Witness ==
  /\ last.op = "verifyPin" /\ last.status = 403
  /\ \E id \in Existing : HasPin(assets[id]) /\ assets[id].views > 0

\* C30: an upload with visibility 'private' or 'public' (no share token)
\* succeeds however many token-less assets exist.
C30_NullTokensNeverConflict ==
  [][(last'.op = "upload") =>
       \A u \in Users, v \in {Null, "private", "public"}, p \in OnePin, t \in Tokens :
         Upload(u, TRUE, v, p, t) => (last'.status = 200 /\ Exists(nextId)')]_vars

\* the word 'admin' stands somewhere in the string e
HasAdminWord(e) ==
  \E i \in 1..Len(e) :
    /\ i + 4 <= Len(e)
    /\ e[i] = "a" /\ e[i + 1] = "d" /\ e[i + 2] = "m"
    /\ e[i + 3] = "i" /\ e[i + 4] = "n"

\* C21: at signup a user gets role 'admin' if and only if the email is in the
\* allow-list or contains the substring "admin", every other email gets
\* 'user'; and no later operation changes the role of an existing user.
C21_RoleAtSignup ==
  [][\A a \in Accounts :
       /\ (users[a] = NoUser /\ users'[a] # NoUser) =>
            users'[a].role =
              IF HasAdminWord(Email(a)) \/ Email(a) \in AdminEmails
              THEN "admin" ELSE "user"
       /\ (users[a] # NoUser /\ users'[a] # NoUser) =>
            users'[a].role = users[a].role]_vars

\* all four accounts have signed up: 'xadmin@x' and the allow-listed email as
\* admins, 'u1@x' and 'Admin@x' as users
C21_Witness ==
  /\ \A a \in Accounts : users[a] # NoUser
  /\ users["a1"].role = "admin" /\ users["a2"].role = "admin"
  /\ users["u1"].role = "user" /\ users["u2"].role = "user"

\* C25: every request eventually gets a response: a request a handler is
\* suspended on is answered, on the success path and when an awaited
\* operation fails at any step; no handler stays open for ever.
C25_AlwaysResponds == (Busy > 0) ~> (Busy = 0)

\* the admin's deletion failed between its two writes and was answered with
\* 500: the user is gone, the user's assets are there, nothing is open
C25_Witness ==
  /\ last = Failed("adminDelete") /\ Busy = 0
  /\ users["u1"] = NoUser
  /\ \E id \in Existing : assets[id].userId = "u1"

\* C29: the dashboard opens or downloads an asset listed with hasPin true
\* only on handling a successful verify-pin response for that asset and that
\* action, closing the dialog; handling a 403 or any other failure leaves the
\* dialog as it is and opens or downloads nothing; a click on an asset listed
\* with hasPin false opens or downloads it directly.
C29_Gated ==
  [][/\ \A id \in Ids, type \in ActionTypes :
          (ui' # ui /\ ui'.done = Perform(id, type) /\ id \in ui.hasPin) =>
            /\ \E f \in BagToSet(ui.fetches) :
                  /\ f.id = id /\ f.type = type /\ f.status = 200
                  /\ ui'.fetches = ui.fetches (-) SetToBag({f})
            /\ ~ui'.pinModalOpen
     /\ \A f \in BagToSet(ui.fetches) :
          (f.status # 200 /\ ui'.fetches = ui.fetches (-) SetToBag({f})) =>
            /\ ui'.pinModalOpen = ui.pinModalOpen
            /\ ui'.done = NoAction
     /\ \A id \in Ids, type \in ActionTypes :
          (handleActionClick(id, type) /\ id \notin ui.hasPin) =>
            /\ ui'.done = Perform(id, type)
            /\ ui'.pinModalOpen = ui.pinModalOpen]_vars

\* a PIN-protected asset was downloaded after its verification succeeded,
\* and the dialog is closed
C29_Witness ==
  /\ ui.done # NoAction /\ ui.done.type = "download"
  /\ ui.done.id \in ui.hasPin
  /\ ~ui.pinModalOpen
  /\ last.op = "verifyPin" /\ last.status = 200

====
